---- MODULE Spec2Model ----
(***************************************************************************)
(* Model of page_speed_insights.py: one Streamlit script (main) that reads *)
(* a URL from a text input, and on a click of "Analyze" validates it, runs  *)
(* a simulated progress loop, fetches and analyses the page                 *)
(* (analyze_webpage), renders the result sections and builds a CSV download.*)
(*                                                                         *)
(* Python values are tagged records: PyStr, PyInt, PyList, None.  A dict    *)
(* whose key order matters is a sequence of <<key, value>> pairs.  A        *)
(* string the code inspects (the URL) is a sequence of tokens; a parsed     *)
(* document is the sequence of its tags in document order.                  *)
(***************************************************************************)
EXTENDS Integers, Sequences, FiniteSets, TLC

VARIABLES api_key, url, pc, clicked, warning, i, progress_bar, status_text,
          net, response, results, errors, sections, download, shown

vars == <<api_key, url, pc, clicked, warning, i, progress_bar, status_text,
          net, response, results, errors, sections, download, shown>>

-----------------------------------------------------------------------------
(* Bounds and program constants *)

MaxTags == 2

ProgressSteps == 100

Timeout == 10

seo_score == 85

accessibility_score == 90

-----------------------------------------------------------------------------
(* Python values *)

None == [none |-> TRUE]

PyStr(s) == [str |-> s]

PyInt(n) == [int |-> n]

PyList(xs) == [list |-> xs]

IsScalar(v) == DOMAIN v \in {{"str"}, {"int"}, {"none"}}

Keys(d) == [k \in 1..Len(d) |-> d[k][1]]

Values(d) == [k \in 1..Len(d) |-> d[k][2]]

Raise(type, msg) == [raised |-> type, detail |-> msg]

Return(v) == [returned |-> v]

Raised(r) == "raised" \in DOMAIN r

-----------------------------------------------------------------------------
(* The text input and the URL validator *)

EmptyText == <<>>

Candidates ==
    { EmptyText,
      <<"not-a-url">>,
      <<"good.example">>,
      <<"https", "://">>,
      <<"https", "://", "good.example">>,
      <<"http", "://", "slow.example">> }

TruthyText(s) == Len(s) > 0

validators_url(u) ==
    /\ Len(u) = 3
    /\ u[1] \in {"http", "https"}
    /\ u[2] = "://"
    /\ u[3] \in {"good.example", "slow.example"}

is_valid_url(u) == validators_url(u)

-----------------------------------------------------------------------------
(* Parsed documents *)

Tag(n, a, s) == [name |-> n, attrs |-> a, string |-> s]

TagUniverse ==
    { Tag("title", {}, PyStr("T")),
      Tag("title", {}, None),
      Tag("meta", {<<"name", "description">>, <<"content", "D">>}, None),
      Tag("meta", {<<"name", "description">>}, None),
      Tag("meta", {<<"name", "viewport">>, <<"content", "width=device-width">>}, None),
      Tag("h1", {}, PyStr("H")),
      Tag("img", {<<"src", "i.png">>}, None),
      Tag("a", {<<"href", "/">>}, PyStr("L")),
      Tag("script", {}, None),
      Tag("link", {<<"rel", "stylesheet">>}, None),
      Tag("link", {<<"rel", "icon">>}, None) }

Docs == UNION { [1..n -> TagUniverse] : n \in 0..MaxTags }

find_all(soup, names, attrs) ==
    LET Match(t) == t.name \in names /\ attrs \subseteq t.attrs
    IN  SelectSeq(soup, Match)

find(soup, names, attrs) ==
    LET found == find_all(soup, names, attrs)
    IN  IF Len(found) > 0 THEN found[1] ELSE None

HasAttr(t, k) == \E p \in t.attrs : p[1] = k

GetItem(t, k) ==
    IF HasAttr(t, k)
    THEN Return(PyStr((CHOOSE p \in t.attrs : p[1] = k)[2]))
    ELSE Raise("KeyError", k)

-----------------------------------------------------------------------------
(* analyze_webpage: fetch, parse, extract *)

StatusCodes == {200, 404, 500}

Outcomes ==
    { [kind |-> "Timeout"], [kind |-> "ConnectionError"] }
    \cup { [kind |-> "Response", status_code |-> s, content |-> <<>>] :
              s \in StatusCodes \ {200} }
    \cup { [kind |-> "Response", status_code |-> 200, content |-> d] : d \in Docs }

requests_get(u, timeout, outcome) ==
    IF outcome.kind = "Response"
    THEN Return(outcome)
    ELSE Raise("RequestException", outcome.kind)

raise_for_status(resp) ==
    IF resp.status_code >= 400 /\ resp.status_code < 600
    THEN Raise("RequestException", "HTTPError")
    ELSE Return(None)

ResultKeys ==
    { "Page Title", "Meta Description", "Core Web Vitals", "SEO Score",
      "Accessibility Score", "Additional Metrics", "Mobile Metrics" }

core_web_vitals ==
    << <<"LCP", PyStr("2.5s")>>, <<"FID", PyStr("100ms")>>, <<"CLS", PyStr("0.1")>> >>

page_title(soup) ==
    LET title == find(soup, {"title"}, {})
    IN  IF title # None THEN title.string ELSE PyStr("No Title")

meta_description(soup) ==
    LET tag == find(soup, {"meta"}, {<<"name", "description">>})
    IN  IF tag # None THEN GetItem(tag, "content") ELSE Return(PyStr("No Description"))

additional_metrics(soup) ==
    << <<"Headers", PyInt(Len(find_all(soup, {"h1", "h2", "h3"}, {})))>>,
       <<"Images", PyInt(Len(find_all(soup, {"img"}, {})))>>,
       <<"Links", PyInt(Len(find_all(soup, {"a"}, {})))>>,
       <<"Meta Tags", PyInt(Len(find_all(soup, {"meta"}, {})))>>,
       <<"Scripts", PyInt(Len(find_all(soup, {"script"}, {})))>>,
       <<"CSS Files", PyInt(Len(find_all(soup, {"link"}, {<<"rel", "stylesheet">>})))>> >>

mobile_metrics(soup) ==
    << <<"Mobile Friendly", PyStr("Yes")>>,
       <<"Viewport Meta",
         IF find(soup, {"meta"}, {<<"name", "viewport">>}) # None
         THEN PyStr("Present") ELSE PyStr("Missing")>>,
       <<"Text Size", PyStr("Readable")>>,
       <<"Tap Target Spacing", PyStr("Adequate")>> >>

extract(soup) ==
    LET md == meta_description(soup)
    IN  IF Raised(md)
        THEN md
        ELSE Return(
               ("Page Title" :> page_title(soup))
            @@ ("Meta Description" :> md.returned)
            @@ ("Core Web Vitals" :> core_web_vitals)
            @@ ("SEO Score" :> PyInt(seo_score))
            @@ ("Accessibility Score" :> PyInt(accessibility_score))
            @@ ("Additional Metrics" :> additional_metrics(soup))
            @@ ("Mobile Metrics" :> mobile_metrics(soup)))

ErrorMsg(site, text, detail) == [site |-> site, text |-> text, detail |-> detail]

(* Variant: an extraction failure is swallowed and the fields gathered so   *)
(* far are returned.                                                        *)
analyze_webpage_Partial(u, outcome) ==
    LET got == requests_get(u, Timeout, outcome)
        checked == IF Raised(got) THEN got ELSE raise_for_status(got.returned)
        body == IF Raised(checked) THEN checked ELSE extract(got.returned.content)
        calls == << [url |-> u, timeout |-> Timeout] >>
    IN  IF ~Raised(body)
        THEN [ret |-> body.returned, errors |-> <<>>, calls |-> calls]
        ELSE IF body.raised = "RequestException"
        THEN [ret |-> None,
              errors |-> << ErrorMsg(160, "Error fetching the webpage", body.detail) >>,
              calls |-> calls]
        ELSE [ret |-> ("Page Title" :> page_title(got.returned.content)),
              errors |-> << ErrorMsg(164, "An unexpected error occurred", body.detail) >>,
              calls |-> calls]

(* Variant: a failed fetch is retried once before giving up.                *)
analyze_webpage_Retry(u, outcome) ==
    LET got == requests_get(u, Timeout, outcome)
        checked == IF Raised(got) THEN got ELSE raise_for_status(got.returned)
        body == IF Raised(checked) THEN checked ELSE extract(got.returned.content)
        call == [url |-> u, timeout |-> Timeout]
    IN  IF ~Raised(body)
        THEN [ret |-> body.returned, errors |-> <<>>, calls |-> <<call>>]
        ELSE IF body.raised = "RequestException"
        THEN [ret |-> None,
              errors |-> << ErrorMsg(160, "Error fetching the webpage", body.detail) >>,
              calls |-> <<call, call>>]
        ELSE [ret |-> None,
              errors |-> << ErrorMsg(164, "An unexpected error occurred", body.detail) >>,
              calls |-> <<call>>]

analyze_webpage(u, outcome) ==
    LET got == requests_get(u, Timeout, outcome)
        checked == IF Raised(got) THEN got ELSE raise_for_status(got.returned)
        body == IF Raised(checked) THEN checked ELSE extract(got.returned.content)
        calls == << [url |-> u, timeout |-> Timeout] >>
    IN  IF ~Raised(body)
        THEN [ret |-> body.returned, errors |-> <<>>, calls |-> calls]
        ELSE IF body.raised = "RequestException"
        THEN [ret |-> None,
              errors |-> << ErrorMsg(160, "Error fetching the webpage", body.detail) >>,
              calls |-> calls]
        ELSE [ret |-> None,
              errors |-> << ErrorMsg(164, "An unexpected error occurred", body.detail) >>,
              calls |-> calls]

-----------------------------------------------------------------------------
(* CSV export: pd.DataFrame(...).to_csv(index=True) *)

export_data(res) ==
    res["Additional Metrics"] \o res["Mobile Metrics"]
    \o << <<"SEO Score", res["SEO Score"]>>,
          <<"Accessibility Score", res["Accessibility Score"]>> >>

DataFrame(data) ==
    LET vals == Values(data)
        lens == { Len(vals[k].list) : k \in { j \in 1..Len(vals) : ~IsScalar(vals[j]) } }
        n    == CHOOSE l \in lens : TRUE
        Cell(r, c) == IF IsScalar(vals[c]) THEN vals[c] ELSE vals[c].list[r]
    IN  IF \A k \in 1..Len(vals) : IsScalar(vals[k])
        THEN Raise("ValueError", "If using all scalar values, you must pass an index")
        ELSE IF Cardinality(lens) > 1
        THEN Raise("ValueError", "All arrays must be of the same length")
        ELSE Return([columns |-> Keys(data),
                     rows |-> [r \in 1..n |-> [c \in 1..Len(vals) |-> Cell(r, c)]]])

to_csv(df) ==
    << <<PyStr("")>> \o [c \in 1..Len(df.columns) |-> PyStr(df.columns[c])] >>
    \o [r \in 1..Len(df.rows) |-> <<PyInt(r - 1)>> \o df.rows[r]]

-----------------------------------------------------------------------------
(* The Analyze handler after analyze_webpage returned: lines 184-229, with   *)
(* the handler's except clause of lines 232-234.                             *)

Primaries(es) == { [site |-> es[k].site, text |-> es[k].text] : k \in 1..Len(es) }

Placeholder == [placeholder |-> TRUE]

Cleared == [empty |-> TRUE]

Truthy(v) == v # None /\ DOMAIN v # {}

Section(title, body) == [subheader |-> title, body |-> body]

result_sections(res) ==
    << Section("Analysis Results", << res["Page Title"], res["Meta Description"] >>),
       Section("Core Web Vitals", res["Core Web Vitals"]),
       Section("SEO & Accessibility",
               << <<"SEO Score", res["SEO Score"]>>,
                  <<"Accessibility Score", res["Accessibility Score"]>> >>),
       Section("Additional Metrics", res["Additional Metrics"]),
       Section("Mobile Friendliness", res["Mobile Metrics"]) >>

(* Variant: the download button sits outside the "if results" block and is  *)
(* fed an empty table when there is no result.                              *)
show_results_NoGuard(res, ui) ==
    IF ~Truthy(res)
    THEN [ui EXCEPT !.download =
             [label |-> "Download Results as CSV",
              data |-> << <<PyStr("")>> >>,
              file_name |-> "web_analysis_results.csv",
              mime |-> "text/csv"]]
    ELSE LET rendered == [ui EXCEPT !.status_text = [text |-> "Analysis complete!"],
                                    !.progress_bar = Cleared,
                                    !.sections = result_sections(res)]
             df == DataFrame(export_data(res))
         IN  IF Raised(df)
             THEN [rendered EXCEPT !.errors =
                      Append(@, ErrorMsg(234, "An unexpected error occurred", df.detail))]
             ELSE [rendered EXCEPT !.download =
                      [label |-> "Download Results as CSV",
                       data |-> to_csv(df.returned),
                       file_name |-> "web_analysis_results.csv",
                       mime |-> "text/csv"]]

(* Variant: the status is set to complete and the bar cleared before the    *)
(* "if results" test.                                                       *)
show_results_CompleteFirst(res, ui) ==
    LET finished == [ui EXCEPT !.status_text = [text |-> "Analysis complete!"],
                               !.progress_bar = Cleared]
    IN  IF ~Truthy(res)
        THEN finished
        ELSE LET rendered == [finished EXCEPT !.sections = result_sections(res)]
                 df == DataFrame(export_data(res))
             IN  IF Raised(df)
                 THEN [rendered EXCEPT !.errors =
                          Append(@, ErrorMsg(234, "An unexpected error occurred", df.detail))]
                 ELSE [rendered EXCEPT !.download =
                          [label |-> "Download Results as CSV",
                           data |-> to_csv(df.returned),
                           file_name |-> "web_analysis_results.csv",
                           mime |-> "text/csv"]]

show_results(res, ui) ==
    IF ~Truthy(res)
    THEN ui
    ELSE LET rendered == [ui EXCEPT !.status_text = [text |-> "Analysis complete!"],
                                 !.progress_bar = Cleared,
                                 !.sections = result_sections(res)]
             df == DataFrame(export_data(res))
         IN  IF Raised(df)
             THEN [rendered EXCEPT !.errors =
                      Append(@, ErrorMsg(234, "An unexpected error occurred", df.detail))]
             ELSE [rendered EXCEPT !.download =
                      [label |-> "Download Results as CSV",
                       data |-> to_csv(df.returned),
                       file_name |-> "web_analysis_results.csv",
                       mime |-> "text/csv"]]

-----------------------------------------------------------------------------
(* The script: every interaction reruns main() from the top *)

TypeOK ==
    /\ api_key \in {None, PyStr("key")}
    /\ url \in Candidates
    /\ pc \in {"idle", "progress", "analyzed", "done"}
    /\ clicked \in BOOLEAN
    /\ warning \in BOOLEAN
    /\ i \in 0..ProgressSteps

Init ==
    /\ api_key \in {None, PyStr("key")}
    /\ url = EmptyText
    /\ pc = "idle"
    /\ clicked = FALSE
    /\ warning = FALSE
    /\ i = 0
    /\ progress_bar = None
    /\ status_text = None
    /\ net = <<>>
    /\ response = None
    /\ results = None
    /\ errors = <<>>
    /\ sections = <<>>
    /\ download = None
    /\ shown = {}

Rerun(u, button) ==
    /\ pc \in {"idle", "done"}
    /\ url' = u
    /\ clicked' = button
    /\ warning' = (TruthyText(u) /\ ~is_valid_url(u))
    /\ i' = 0
    /\ net' = <<>>
    /\ response' = None
    /\ results' = None
    /\ sections' = <<>>
    /\ download' = None
    /\ UNCHANGED api_key

EnterUrl ==
    \E u \in Candidates :
        /\ Rerun(u, FALSE)
        /\ pc' = "idle"
        /\ progress_bar' = None
        /\ status_text' = None
        /\ errors' = <<>>
        /\ UNCHANGED shown

(* Variant: the handler tests only that the input is non-empty.             *)
ClickAnalyze_NoValidation ==
    /\ Rerun(url, TRUE)
    /\ IF TruthyText(url)
       THEN /\ pc' = "progress"
            /\ progress_bar' = PyInt(0)
            /\ status_text' = Placeholder
            /\ errors' = <<>>
       ELSE /\ pc' = "done"
            /\ progress_bar' = None
            /\ status_text' = None
            /\ errors' = << ErrorMsg(231, "Please enter a valid URL.", "") >>
    /\ shown' = shown \cup Primaries(errors')

ClickAnalyze ==
    /\ Rerun(url, TRUE)
    /\ IF TruthyText(url) /\ is_valid_url(url)
       THEN /\ pc' = "progress"
            /\ progress_bar' = PyInt(0)
            /\ status_text' = Placeholder
            /\ errors' = <<>>
       ELSE /\ pc' = "done"
            /\ progress_bar' = None
            /\ status_text' = None
            /\ errors' = << ErrorMsg(231, "Please enter a valid URL.", "") >>
    /\ shown' = shown \cup Primaries(errors')

ProgressStep ==
    /\ pc = "progress"
    /\ i < ProgressSteps
    /\ i' = i + 1
    /\ progress_bar' = PyInt(i + 1)
    /\ status_text' = [text |-> "Analysis in progress", pct |-> i + 1]
    /\ UNCHANGED <<api_key, url, pc, clicked, warning, net, response, results,
                   errors, sections, download, shown>>

AnalyzeWebpage ==
    /\ pc = "progress"
    /\ i = ProgressSteps
    /\ \E outcome \in Outcomes :
           LET r == analyze_webpage(url, outcome)
           IN  /\ response' = outcome
               /\ net' = net \o r.calls
               /\ results' = r.ret
               /\ errors' = errors \o r.errors
    /\ pc' = "analyzed"
    /\ shown' = shown \cup Primaries(errors')
    /\ UNCHANGED <<api_key, url, clicked, warning, i, progress_bar, status_text,
                   sections, download>>

ShowResults ==
    /\ pc = "analyzed"
    /\ LET ui == show_results(results,
                     [status_text |-> status_text, progress_bar |-> progress_bar,
                      sections |-> sections, download |-> download, errors |-> errors])
       IN  /\ status_text' = ui.status_text
           /\ progress_bar' = ui.progress_bar
           /\ sections' = ui.sections
           /\ download' = ui.download
           /\ errors' = ui.errors
    /\ pc' = "done"
    /\ shown' = shown \cup Primaries(errors')
    /\ UNCHANGED <<api_key, url, clicked, warning, i, net, response, results>>

Next ==
    \/ EnterUrl
    \/ ClickAnalyze
    \/ ProgressStep
    \/ AnalyzeWebpage
    \/ ShowResults

Spec == Init /\ [][Next]_vars

-----------------------------------------------------------------------------
(* Properties *)

FetchFailed(resp) ==
    \/ resp.kind # "Response"
    \/ resp.status_code < 200
    \/ resp.status_code >= 300

Analysed == pc \in {"analyzed", "done"} /\ response # None

HasTag(soup, names, attrs) == Len(find_all(soup, names, attrs)) > 0

Lookup(d, key) == (CHOOSE k \in 1..Len(d) : d[k][1] = key)

(* C1: after a click on Analyze with an input the URL validator rejects     *)
(* (the empty string included) no network call has been issued,             *)
(* analyze_webpage has not run, and the handler's only effect is the error  *)
(* message "Please enter a valid URL.".                                     *)
C1_RejectedInputNoNetwork ==
    (clicked /\ ~validators_url(url)) =>
        /\ pc = "done"
        /\ net = <<>>
        /\ response = None
        /\ results = None
        /\ errors = << ErrorMsg(231, "Please enter a valid URL.", "") >>
        /\ progress_bar = None
        /\ status_text = None
        /\ sections = <<>>
        /\ download = None

C1_Witness ==
    /\ clicked
    /\ url = EmptyText
    /\ pc = "done"
    /\ Len(errors) = 1

(* C2: for a batch of N valid URLs of which K fail their fetch the batch    *)
(* holds exactly N-K results, in input order; a URL contributes a result    *)
(* iff its fetch succeeded.  The handler analyses a batch of one URL.       *)
C2_ResultIffFetchSucceeded ==
    Analysed =>
        LET N == 1
            K == IF FetchFailed(response) THEN 1 ELSE 0
            batch == IF results # None THEN <<url>> ELSE <<>>
        IN  /\ Len(batch) = N - K
            /\ (results # None) <=> ~FetchFailed(response)

C4_ExtractionNeverFails ==
    (Analysed /\ ~FetchFailed(response)) =>
        LET soup == response.content
        IN  /\ results # None
            /\ DOMAIN results = ResultKeys
            /\ ~HasTag(soup, {"title"}, {}) => results["Page Title"] = PyStr("No Title")
            /\ ~HasTag(soup, {"meta"}, {<<"name", "description">>})
                  => results["Meta Description"] = PyStr("No Description")
            /\ ~HasTag(soup, {"meta"}, {<<"name", "viewport">>})
                  => results["Mobile Metrics"][Lookup(results["Mobile Metrics"],
                                                      "Viewport Meta")][2]
                        = PyStr("Missing")

(* C5: after every successful analysis the export produces a table with     *)
(* one header row of the flattened field names and exactly one data row,    *)
(* and raises nothing.                                                      *)
C5_ExportOneRow ==
    (pc = "done" /\ Truthy(results)) =>
        /\ download # None
        /\ Len(download.data) = 2
        /\ Tail(download.data[1]) =
              [c \in 1..Len(export_data(results)) |->
                  PyStr(Keys(export_data(results))[c])]
        /\ \A k \in 1..Len(errors) : errors[k].site # 234

(* C6: when API_KEY is absent from the environment no network call is       *)
(* issued and a configuration error is reported.                            *)
C6_MissingCredentialNoCall ==
    api_key = None => net = <<>>

(* C7: in a run where the analysis produced no result no download artifact  *)
(* is produced or offered.                                                  *)
C7_NoArtifactWithoutResult ==
    ~Truthy(results) => download = None

C7_Witness ==
    /\ pc = "done"
    /\ Analysed
    /\ results = None
    /\ download = None

Category(site) ==
    CASE site = 231 -> "ValidationError"
      [] site = 160 -> "TransportError"
      [] site = 164 -> "ProtocolError"
      [] site = 234 -> "ExportError"

C9_DistinctMessagePerCategory ==
    \A a, b \in shown :
        Category(a.site) # Category(b.site) => a.text # b.text

(* C10: within one click the fetch starts only after the progress loop has  *)
(* run all 100 steps; "Analysis complete!", the cleared progress bar and    *)
(* the result sections appear only if analyze_webpage returned a result;    *)
(* without a result the status stays at "Analysis in progress: 100%", the   *)
(* bar is not cleared and no section is shown.                              *)
C10_ProgressThenResult ==
    /\ (net # <<>> \/ response # None) => i = 100
    /\ pc = "progress" => (net = <<>> /\ sections = <<>> /\ results = None)
    /\ (\/ status_text = [text |-> "Analysis complete!"]
        \/ progress_bar = Cleared
        \/ sections # <<>>) => (Truthy(results) /\ pc = "done")
    /\ (pc = "done" /\ Analysed /\ ~Truthy(results)) =>
         /\ status_text = [text |-> "Analysis in progress", pct |-> 100]
         /\ progress_bar = PyInt(100)
         /\ sections = <<>>
    /\ (pc = "done" /\ Truthy(results)) =>
         /\ status_text = [text |-> "Analysis complete!"]
         /\ progress_bar = Cleared
         /\ Len(sections) = 5

C10_Witness ==
    /\ pc = "done"
    /\ Truthy(results)
    /\ status_text = [text |-> "Analysis complete!"]
    /\ progress_bar = Cleared
    /\ i = 100

=============================================================================
